---- MODULE Spec2Model ----
(***************************************************************************)
(* Model of fundinsight-ai.                                                *)
(*                                                                         *)
(* Spec: the concurrent acquisition pipeline, MorningstarClient._fetch_api *)
(* (semaphore + delay), get_fund_data (three concurrent sub-requests and   *)
(* the normalizer's outcome) and batch_get_fund_data (chunked              *)
(* asyncio.gather over the identifiers).  One asyncio event loop runs the  *)
(* tasks; a step of the model is what a task does between two awaits.      *)
(*                                                                         *)
(* NormalizerSpec: get_fund_data as a function of its identifier and of    *)
(* the performance and fees payloads (fees, returns, benchmark comparison, *)
(* fund_type).                                                             *)
(*                                                                         *)
(* FairSpec: Spec without cancellation and with weak fairness on every     *)
(* step, for what the call does in the end.                                *)
(*                                                                         *)
(* ScoringSpec: the scoring loop of analyze_sector, score_fund and the six *)
(* _score_*_relative functions of models/fund.py, in exact arithmetic,     *)
(* with the clock the stability score reads, the sort by score and the     *)
(* ranking table of export_tool_scores_to_markdown.                        *)
(***************************************************************************)
EXTENDS Integers, Sequences, FiniteSets, TLC

\* ---------------------------------------------------------------------------
\* Bounds of the model
\* ---------------------------------------------------------------------------

\* longest identifier sequence handed to batch_get_fund_data
MaxLen == 3

\* the identifiers the sequences are drawn from
Codes == {"A", "B"}

\* the values of the constructor argument max_concurrent that are explored
Concurrency == {1, 2}

\* ---------------------------------------------------------------------------
\* Values
\* ---------------------------------------------------------------------------

\* the three sub-resources get_fund_data asks for
Endpoints == {"common-data", "performance", "fees"}

\* What the provider can answer to one request, one value per path of
\* _fetch_api:
\*   "ok"        2xx, response_status 200011, data present
\*   "ok_empty"  2xx, response_status 200011, data missing or empty
\*   "status"    2xx with another response_status
\*   "404", "429", "http"   raise_for_status raises HTTPStatusError
\*   "exc"       the transport raises (timeout, connection error)
\*   "json"      the body does not parse: response.json() raises
Outcomes == {"ok", "ok_empty", "status", "404", "429", "http", "exc", "json"}

\* a request that no task has been created for
IdleReq == [pc |-> "idle", ret |-> "-", nreq |-> 0, delayed |-> FALSE]

\* the result of get_fund_data when it returns None
None == [kind |-> "None"]

\* the result of a get_fund_data task that ended with CancelledError
Cancelled == [kind |-> "CancelledError"]

\* a task slot that holds no result
NoResult == [kind |-> "-"]

\* ---------------------------------------------------------------------------
\* get_fund_data as a function of the payloads (the normalizer)
\* ---------------------------------------------------------------------------

\* Numbers are counted in units of 0.0001: the provider's 0.15 (percent) is
\* 1500 and the fraction 0.0015 is 15; a return of 1.004 (percent) is 10040.

\* longest identifier handed to get_fund_data
MaxCodeLen == 3

\* the digits of the prefixes get_fund_data looks for, and one more
Digits == {0, 1, 5, 6, 8, 9}

\* an optional number or boolean: None is the empty set
Absent == {}
Some(v) == {v}
Val(o) == CHOOSE v \in o : TRUE

\* a payload that is the empty dict
EmptyDict == [kind |-> "{}"]

\* what the provider may put in dayEnd.returns.YTD / Y3 / Y5 and in
\* dayEnd.benchmarkReturns.YTD
YTDValues == {Absent, Some(0), Some(10040)}
Y3Values == {Absent, Some(123440)}
Y5Values == {Absent, Some(0)}
BenchmarkYTDValues == {Absent, Some(10000)}

\* what the provider may put in the fields of "fees"
ManagementFeeValues == {Absent, Some(0), Some(5000)}
CustodianFeeValues == {Absent, Some(1000)}
DistributionFeeValues == {Absent, Some(2000)}
TradeCostValues == {Some(300)}
OtherCostValues == {Absent, Some(-5000)}
\* a key of "fees" that _extract_fees_data does not read: a subscription fee
\* the payload may hold (1.5)
SubscriptionFeeValues == {Absent, Some(15000)}

\* ---------------------------------------------------------------------------
\* score_fund and the scoring loop of analyze_sector
\* ---------------------------------------------------------------------------

\* most funds in a list that is scored, all lists up to this length being tried
MaxFunds == 4

\* length of the long lists that are tried as well: more than ten funds, so
\* that a percentile can be below 0.1
LongLen == 11

\* ideal_scale of _score_scale_relative
ideal_scale == 26

\* the rows export_tool_scores_to_markdown writes at most
TopN == 20

\* The funds a scored list is made of.  Each is what score_fund reads of a
\* FundData: total_annual_fee, scale, yearly_return, return_5year,
\* beats_benchmark_amount, and age, the days from establish_date to the day
\* the scoring starts (absent when establish_date is empty or does not parse).
\* fee_parts is the sum of the fee components the FundData holds next to
\* total_annual_fee (management_fee, custody_fee, distribution_fee,
\* trade_cost, other_cost).  Fees are counted in units of 0.0001 (20 is
\* 0.20%), scale in units of 100 million, returns in units of 0.01
\* percentage points (1500 is 15%), age in days.

\* the best of the pool in every field
BestFund ==
    [code |-> 1, total_annual_fee |-> Some(20), fee_parts |-> Some(20),
     scale |-> 26, yearly_return |-> Some(1500), return_5year |-> Some(8000), beats_benchmark_amount |-> Some(300), age |-> Some(3000)]

\* the worst of the pool in every optional field
WorstFund ==
    [code |-> 3, total_annual_fee |-> Some(150), fee_parts |-> Some(150),
     scale |-> 50, yearly_return |-> Some(-800), return_5year |-> Some(-5000), beats_benchmark_amount |-> Some(-500), age |-> Some(200)]

\* a fund between the two
MidFund ==
    [code |-> 2, total_annual_fee |-> Some(60), fee_parts |-> Some(60),
     scale |-> 2, yearly_return |-> Some(0), return_5year |-> Some(2000),
     beats_benchmark_amount |-> Some(-200), age |-> Some(900)]

\* a fund with the data of MidFund under another code
TwinFund == [MidFund EXCEPT !.code = 6]

\* Over the pool every optional field is absent in one fund or two and has
\* three different values or more; two scales are equally far from
\* ideal_scale, and two funds were established a day apart.  One fund holds
\* fee components without a total, one a total that is not their sum.
FundPool ==
    {BestFund,
     MidFund,
     WorstFund,
     [code |-> 4, total_annual_fee |-> Absent, fee_parts |-> Some(20),
      scale |-> 0, yearly_return |-> Absent, return_5year |-> Absent,
      beats_benchmark_amount |-> Absent, age |-> Absent],
     [code |-> 5, total_annual_fee |-> Some(60), fee_parts |-> Some(200),
      scale |-> 120, yearly_return |-> Some(1500), return_5year |-> Absent,
      beats_benchmark_amount |-> Some(-200), age |-> Some(901)]}

VARIABLES
    max_concurrent,   \* self.max_concurrent
    semaphore,        \* free permits of self.semaphore
    fund_codes,       \* argument of batch_get_fund_data
    bpc,              \* where batch_get_fund_data is: "call", "gather", "done", "cancelled"
    i,                \* loop variable of batch_get_fund_data (0-based start of the chunk)
    funds,            \* local list funds
    failed,           \* local list failed
    returned,         \* the list handed back to the caller (<<>> until it returns)
    tpc,              \* per slot of the chunk: "none", "gather" (awaiting its three requests), "done"
    result,           \* per slot: what the get_fund_data task ended with
    req,              \* per slot and endpoint: the _fetch_api task
    status,           \* history: per input position "pending", "active", "ok", "failed", "cancelled"
    cause,            \* history: per slot, what the provider answered to the common-data request
                      \* of a call that was not cancelled
    raised,           \* history: per slot, the try block of get_fund_data raised
    cancelled         \* history: the caller of batch_get_fund_data was cancelled

\* the call of get_fund_data looked at on its own, after its gather
VARIABLES
    fund_code,          \* argument of get_fund_data, a sequence of digits
    performance_data,   \* what _fetch_api returned for "performance"
    fees_data,          \* what _fetch_api returned for "fees"
    fund_data           \* what get_fund_data returns (NoResult until it has)

nvars == <<fund_code, performance_data, fees_data, fund_data>>

\* the scoring loop of analyze_sector
VARIABLES
    all_funds,          \* the list batch_get_fund_data returned (funds of analyze_sector)
    scored_funds,       \* the list of {fund, score, breakdown} built so far
    today,              \* the day datetime.now() is in, counted from the day the scoring starts
    spc,                \* where analyze_sector is: "score", "sorted", "exported"; "alone" after
                        \* a call of score_fund without a list
    table               \* the rows export_tool_scores_to_markdown writes

svars == <<all_funds, scored_funds, today, spc, table>>

vars == <<max_concurrent, semaphore, fund_codes, bpc, i, funds, failed, returned,
          tpc, result, req, status, cause, raised, cancelled, nvars, svars>>

Slots == 1..max_concurrent

\* ---------------------------------------------------------------------------
\* Helpers
\* ---------------------------------------------------------------------------

\* all sequences over S of length 0..n
SeqsUpTo(S, n) == UNION {[1..k -> S] : k \in 0..n}

Min(a, b) == IF a < b THEN a ELSE b

\* fund_codes[i:i + batch_size]
batch == SubSeq(fund_codes, i + 1, Min(i + max_concurrent, Len(fund_codes)))

\* what _fetch_api returns for an answer of the provider
FetchResult(o) ==
    IF o = "ok" THEN "data"
    ELSE "None"                \* None, or data that is missing or empty: falsy

\* what the history keeps of an answer to a common-data request: the answers
\* the log of _fetch_api tells apart as found, not found and rate limited
CauseOf(o) == IF o \in {"ok", "404", "429"} THEN o ELSE "other"

\* the positions (1-based) of fund_codes that slot j of the current chunk stands for
PosOf(j) == i + j

\* the truth value Python gives a value returned by _fetch_api
Truthy(r) == r = "data"

\* get_fund_data that gives up when any of the three sub-resources is missing
GetFundDataNeedsAll(code, common, perf, fee, raises) ==
    IF ~Truthy(common) \/ ~Truthy(perf) \/ ~Truthy(fee) THEN None
    ELSE IF raises THEN None
    ELSE [kind |-> "FundData", code |-> code]

\* get_fund_data after its gather: None without common-data, None when
\* building the entity raises, else the entity of the identifier.  Missing
\* performance or fees data only changes the fields of the entity (absent
\* returns, default fees), which are not part of this model.  raises: the
\* payloads have a shape the try block raises on (fundSize a string, dayEnd
\* null, a fees payload that is no object, a field FundData rejects ...).
GetFundDataResult(code, common, perf, fee, raises) ==
    IF ~Truthy(common) THEN None
    ELSE IF raises THEN None
    ELSE [kind |-> "FundData", code |-> code]

\* the _fetch_api task has ended (returned, or ended with CancelledError)
Ended(r) == r.pc \in {"done", "cancelled"}

\* a gather that returns as soon as one task of the chunk has ended
ChunkFirstSettled == \E j \in Slots : tpc[j] = "done"

\* every task of the chunk asyncio.gather waits for has ended
ChunkSettled == \A j \in Slots : tpc[j] # "gather"

\* a collection that drops the whole chunk when one of its calls failed
CollectFundsAllOrNothing(j, acc) ==
    IF \E k \in 1..Len(batch) : result[k] = None THEN acc
    ELSE acc \o [k \in 1..Len(batch) |-> result[k]]

\* a collection in which the entities of a chunk come last call first
CollectFundsLastFirst(j, acc) ==
    acc \o SelectSeq([k \in 1..Len(batch) |-> result[Len(batch) + 1 - k]],
                     LAMBDA r : r.kind # "Exception" /\ r # None)

\* the loop "for j, result in enumerate(batch_results)" from slot j on
RECURSIVE CollectFunds(_, _)
CollectFunds(j, acc) ==
    IF j > Len(batch) THEN acc
    ELSE CollectFunds(j + 1,
            IF result[j].kind = "Exception" THEN acc
            ELSE IF result[j] # None THEN Append(acc, result[j])
            ELSE acc)

RECURSIVE CollectFailed(_, _)
CollectFailed(j, acc) ==
    IF j > Len(batch) THEN acc
    ELSE CollectFailed(j + 1,
            IF result[j].kind = "Exception" THEN Append(acc, batch[j]) ELSE acc)

\* ---------------------------------------------------------------------------
\* The normalizer: the try block of get_fund_data and _extract_fees_data
\* ---------------------------------------------------------------------------

\* the identifiers get_fund_data is called with
FundCodes == SeqsUpTo(Digits, MaxCodeLen)

\* What _fetch_api can return for "performance": None, an empty dict, a dict
\* whose dayEnd is null (dayEnd.get raises), or a dict with the four numbers
\* get_fund_data reads, each of which may be missing.
PerformancePayloads ==
    {None, EmptyDict, [kind |-> "dayEnd-null"]} \cup
    {[kind |-> "dict", YTD |-> y, Y3 |-> y3, Y5 |-> y5, benchmarkYTD |-> b] :
        y \in YTDValues, y3 \in Y3Values, y5 \in Y5Values, b \in BenchmarkYTDValues}

\* What _fetch_api can return for "fees": None, an empty dict, a value that is
\* no dict (fees_data.get raises), a dict without (or with an empty) "fees",
\* a dict whose "fees" is no dict (fees.get raises), or a dict with the five
\* numbers _extract_fees_data reads, each of which may be missing, and with
\* or without a number it does not read.
FeesPayloads ==
    {None, EmptyDict, [kind |-> "not-dict"], [kind |-> "no-fees"], [kind |-> "bad-fees"]} \cup
    {[kind |-> "fees", managementFee |-> m, custodianFee |-> c, distributionFee |-> d,
      tradeCost |-> t, otherCost |-> o, subscriptionFee |-> sf] :
        m \in ManagementFeeValues, c \in CustodianFeeValues, d \in DistributionFeeValues,
        t \in TradeCostValues, o \in OtherCostValues, sf \in SubscriptionFeeValues}

\* str.startswith
StartsWith(str, prefix) ==
    /\ Len(str) >= Len(prefix)
    /\ SubSeq(str, 1, Len(prefix)) = prefix

\* a prefix test that takes every identifier that starts with 5 for on-exchange
FundTypeAnyFive(code) ==
    IF code # << >> /\ code[1] = 5 THEN "on-exchange" ELSE "off-exchange"

\* fund_type of get_fund_data: "on-exchange" and "off-exchange" stand for the
\* two strings of the source (funds traded on an exchange, and the others)
FundType(code) ==
    IF \/ StartsWith(code, <<5, 1>>) \/ StartsWith(code, <<5, 8, 8>>)
       \/ StartsWith(code, <<1, 5, 9>>) \/ StartsWith(code, <<1, 6>>)
       \/ StartsWith(code, <<1, 5>>)
    THEN "on-exchange"
    ELSE "off-exchange"

\* round(x, 2): the nearest multiple of 0.01.  A value half way between two
\* of them goes to the even one here; Python decides such a case on the
\* binary value of the float, so the inputs above are chosen to have none.
Round2(x) ==
    LET r == x % 100
        lo == x - r
    IN  IF r < 50 THEN lo
        ELSE IF r > 50 THEN lo + 100
        ELSE IF (lo \div 100) % 2 = 0 THEN lo ELSE lo + 100

\* "x or d" of Python for an optional number: d when x is None or 0
\* "x or d" that replaces only a missing x
OrDefaultNoneOnly(x, d) == IF x = Absent THEN d ELSE Val(x)

OrDefault(x, d) == IF x = Absent \/ x = Some(0) THEN d ELSE Val(x)

\* default_fees of _extract_fees_data
default_fees ==
    [management_fee |-> 15, custody_fee |-> 5, subscription_fee |-> 0,
     redemption_fee |-> 0, sales_service_fee |-> 0, transaction_cost |-> 0,
     other_fees |-> 0, total_annual_fee |-> 20]

\* FeesFrom without the division by 100
FeesFromNoConversion(fees) ==
    LET management_fee == OrDefault(fees.managementFee, 1500)
        custody_fee == OrDefault(fees.custodianFee, 500)
        sales_service_fee == OrDefault(fees.distributionFee, 0)
        transaction_cost == OrDefault(fees.tradeCost, 0)
        other_fees == OrDefault(fees.otherCost, 0)
    IN  [management_fee |-> management_fee, custody_fee |-> custody_fee,
         subscription_fee |-> 0, redemption_fee |-> 0,
         sales_service_fee |-> sales_service_fee,
         transaction_cost |-> transaction_cost, other_fees |-> other_fees,
         total_annual_fee |-> management_fee + custody_fee + sales_service_fee
                              + transaction_cost + other_fees]

\* the dict _extract_fees_data builds from "fees"
FeesFrom(fees) ==
    LET management_fee == OrDefault(fees.managementFee, 1500) \div 100
        custody_fee == OrDefault(fees.custodianFee, 500) \div 100
        sales_service_fee == OrDefault(fees.distributionFee, 0) \div 100
        transaction_cost == OrDefault(fees.tradeCost, 0) \div 100
        other_fees == OrDefault(fees.otherCost, 0) \div 100
    IN  [management_fee |-> management_fee, custody_fee |-> custody_fee,
         subscription_fee |-> 0, redemption_fee |-> 0,
         sales_service_fee |-> sales_service_fee,
         transaction_cost |-> transaction_cost, other_fees |-> other_fees,
         total_annual_fee |-> management_fee + custody_fee + sales_service_fee
                              + transaction_cost + other_fees]

\* _extract_fees_data that answers a missing payload with fees of zero
ExtractFeesDataZeroDefault(fd) ==
    IF fd.kind \in {"None", "{}", "no-fees", "bad-fees"}
    THEN [management_fee |-> 0, custody_fee |-> 0, subscription_fee |-> 0,
          redemption_fee |-> 0, sales_service_fee |-> 0, transaction_cost |-> 0,
          other_fees |-> 0, total_annual_fee |-> 0]
    ELSE FeesFrom(fd)

\* _extract_fees_data for a fees_data that is None or a dict
ExtractFeesData(fd) ==
    IF fd.kind \in {"None", "{}", "no-fees"} THEN default_fees
    ELSE IF fd.kind = "bad-fees" THEN default_fees
    ELSE FeesFrom(fd)

\* Performance that fills in "did not beat, by 0" when a return is missing
PerformanceDefaulted(pd) ==
    LET yearly_return == pd.YTD
        benchmark_return == pd.benchmarkYTD
        both == yearly_return # Absent /\ benchmark_return # Absent
    IN  [yearly_return |-> {Round2(v) : v \in yearly_return},
         return_3year |-> {Round2(v) : v \in pd.Y3},
         return_5year |-> {Round2(v) : v \in pd.Y5},
         beats_benchmark |->
             IF both THEN Some(Val(yearly_return) > Val(benchmark_return)) ELSE Some(FALSE),
         beats_benchmark_amount |->
             IF both THEN Some(Round2(Val(yearly_return) - Val(benchmark_return)))
             ELSE Some(0)]

\* the five values get_fund_data takes from a performance_data that is truthy
Performance(pd) ==
    LET yearly_return == pd.YTD
        benchmark_return == pd.benchmarkYTD
        both == yearly_return # Absent /\ benchmark_return # Absent
    IN  [yearly_return |-> {Round2(v) : v \in yearly_return},
         return_3year |-> {Round2(v) : v \in pd.Y3},
         return_5year |-> {Round2(v) : v \in pd.Y5},
         beats_benchmark |->
             IF both THEN Some(Val(yearly_return) > Val(benchmark_return)) ELSE Absent,
         beats_benchmark_amount |->
             IF both THEN Some(Round2(Val(yearly_return) - Val(benchmark_return)))
             ELSE Absent]

\* the values get_fund_data starts from and keeps when performance_data is falsy
NoPerformance ==
    [yearly_return |-> Absent, return_3year |-> Absent, return_5year |-> Absent,
     beats_benchmark |-> Absent, beats_benchmark_amount |-> Absent]

\* The try block of get_fund_data for a common_data that is truthy: None when
\* it raises, else the FundData it builds (its fees, returns, benchmark
\* comparison and fund_type; name, scale, establish_date and benchmark name
\* come from common_data and are left out).
BuildFundData(code, pd, fd) ==
    IF fd.kind = "not-dict" \/ pd.kind = "dayEnd-null" THEN None
    ELSE LET fees_info == ExtractFeesData(fd)
             perf == IF pd.kind = "dict" THEN Performance(pd) ELSE NoPerformance
         IN  [kind |-> "FundData",
              code |-> code,
              management_fee |-> fees_info.management_fee,
              custody_fee |-> fees_info.custody_fee,
              subscription_fee |-> fees_info.subscription_fee,
              redemption_fee |-> fees_info.redemption_fee,
              sales_service_fee |-> fees_info.sales_service_fee,
              transaction_cost |-> fees_info.transaction_cost,
              other_fees |-> fees_info.other_fees,
              total_annual_fee |-> fees_info.total_annual_fee,
              yearly_return |-> perf.yearly_return,
              return_3year |-> perf.return_3year,
              return_5year |-> perf.return_5year,
              beats_benchmark |-> perf.beats_benchmark,
              beats_benchmark_amount |-> perf.beats_benchmark_amount,
              fund_type |-> FundType(code)]

\* no call of get_fund_data is looked at on its own
NormalizerIdle ==
    /\ fund_code = << >>
    /\ performance_data = None
    /\ fees_data = None
    /\ fund_data = NoResult

\* ---------------------------------------------------------------------------
\* Scoring: score_fund and the _score_*_relative functions of models/fund.py
\* ---------------------------------------------------------------------------

RECURSIVE Factorial(_)
Factorial(n) == IF n <= 1 THEN 1 ELSE n * Factorial(n - 1)

\* Scores are counted in units of 1 / ScoreUnit: a percentile is c / n with
\* n <= MaxFunds or n = LongLen, and every band is linear in it with a slope
\* that is a multiple of 1/12, so that every score is a whole number of units.
ScoreUnit == 12 * Factorial(MaxFunds) * LongLen * (TopN + 1)

Abs(x) == IF x < 0 THEN -x ELSE x

\* The lists that are scored: every list of 1 to MaxFunds funds of the pool,
\* the shorter lists of BestFund, MidFund and TwinFund, the lists of
\* LongLen funds that start with some WorstFund and go on with BestFund, in
\* which the percentiles of WorstFund go from 1 / LongLen up, and a list of
\* one fund more than the ranking table has rows.
FundLists ==
    UNION {[1..n -> FundPool] : n \in 1..MaxFunds}
    \cup UNION {[1..n -> {BestFund, MidFund, TwinFund}] : n \in 1..(MaxFunds - 1)}
    \cup {[k \in 1..LongLen |-> IF k <= j THEN WorstFund ELSE BestFund] : j \in 1..(LongLen - 1)}
    \cup {[k \in 1..(TopN + 1) |-> IF k = 1 THEN WorstFund ELSE BestFund]}

\* "percentile >= t / 10" for the percentile c / n
AtLeast(pc, t) == 10 * pc.c >= t * pc.n

\* "base + (percentile - lo / 10) / (width / 10) * span" for the percentile c / n
Band(pc, base, lo, width, span) ==
    base * ScoreUnit + ((10 * pc.c - lo * pc.n) * span * ScoreUnit) \div (width * pc.n)

\* max(0, x)
Max0(x) == IF x < 0 THEN 0 ELSE x

\* the funds of fs (by index) that have the field
Having(fs, field) == {k \in DOMAIN fs : fs[k][field] # Absent}

\* the fee of a fund added up again from its components
FeeFromParts(f) == IF f.fee_parts # Absent THEN Val(f.fee_parts) ELSE Val(f.total_annual_fee)

\* a percentile of the fees added up again from the components
fees_percentile_from_parts(f, fs) ==
    [c |-> Cardinality({k \in Having(fs, "total_annual_fee") :
                FeeFromParts(fs[k]) >= FeeFromParts(f)}),
     n |-> Cardinality(Having(fs, "total_annual_fee"))]

\* percentile of _score_fees_relative: the share of the fees that are not
\* below the fund's
fees_percentile(f, fs) ==
    [c |-> Cardinality({k \in Having(fs, "total_annual_fee") :
                Val(fs[k].total_annual_fee) >= Val(f.total_annual_fee)}),
     n |-> Cardinality(Having(fs, "total_annual_fee"))]

\* _score_fees_relative whose top band is 3 points wide
score_fees_relative_wide(f, fs) ==
    IF Having(fs, "total_annual_fee") = {} \/ f.total_annual_fee = Absent
    THEN 8 * ScoreUnit
    ELSE LET percentile == fees_percentile(f, fs)
         IN  IF AtLeast(percentile, 9) THEN Band(percentile, 13, 9, 1, 3)
             ELSE IF AtLeast(percentile, 7) THEN Band(percentile, 11, 7, 2, 1)
             ELSE IF AtLeast(percentile, 3) THEN Band(percentile, 9, 3, 4, 1)
             ELSE IF AtLeast(percentile, 1) THEN Band(percentile, 6, 1, 2, 2)
             ELSE Max0(Band(percentile, 0, 0, 1, 5))

\* _score_fees_relative
score_fees_relative(f, fs) ==
    IF Having(fs, "total_annual_fee") = {} \/ f.total_annual_fee = Absent
    THEN 8 * ScoreUnit
    ELSE LET percentile == fees_percentile(f, fs)
         IN  IF AtLeast(percentile, 9) THEN Band(percentile, 13, 9, 1, 2)
             ELSE IF AtLeast(percentile, 7) THEN Band(percentile, 11, 7, 2, 1)
             ELSE IF AtLeast(percentile, 3) THEN Band(percentile, 9, 3, 4, 1)
             ELSE IF AtLeast(percentile, 1) THEN Band(percentile, 6, 1, 2, 2)
             ELSE Max0(Band(percentile, 0, 0, 1, 5))

\* percentile of _score_scale_relative: the share of the deviations from
\* ideal_scale that are not below the fund's (scale is never None)
scale_percentile(f, fs) ==
    [c |-> Cardinality({k \in DOMAIN fs :
                Abs(fs[k].scale - ideal_scale) >= Abs(f.scale - ideal_scale)}),
     n |-> Len(fs)]

\* _score_scale_relative
score_scale_relative(f, fs) ==
    IF fs = << >>
    THEN 8 * ScoreUnit
    ELSE LET percentile == scale_percentile(f, fs)
         IN  IF AtLeast(percentile, 7) THEN Band(percentile, 12, 7, 3, 3)
             ELSE IF AtLeast(percentile, 3) THEN Band(percentile, 9, 3, 4, 2)
             ELSE Band(percentile, 0, 0, 3, 8)

\* a percentile that counts the returns that are not below the fund's
returns_percentile_inverted(f, fs) ==
    [c |-> Cardinality({k \in Having(fs, "yearly_return") :
                Val(fs[k].yearly_return) >= Val(f.yearly_return)}),
     n |-> Cardinality(Having(fs, "yearly_return"))]

\* percentile of _score_short_term_performance_relative: the share of the
\* year-to-date returns that are not above the fund's
returns_percentile(f, fs) ==
    [c |-> Cardinality({k \in Having(fs, "yearly_return") :
                Val(fs[k].yearly_return) <= Val(f.yearly_return)}),
     n |-> Cardinality(Having(fs, "yearly_return"))]

\* _score_short_term_performance_relative
score_short_term_performance_relative(f, fs) ==
    IF Having(fs, "yearly_return") = {} \/ f.yearly_return = Absent
    THEN 10 * ScoreUnit
    ELSE LET percentile == returns_percentile(f, fs)
         IN  IF AtLeast(percentile, 9) THEN Band(percentile, 18, 9, 1, 2)
             ELSE IF AtLeast(percentile, 7) THEN Band(percentile, 15, 7, 2, 2)
             ELSE IF AtLeast(percentile, 3) THEN Band(percentile, 12, 3, 4, 2)
             ELSE IF AtLeast(percentile, 1) THEN Band(percentile, 8, 1, 2, 3)
             ELSE Max0(Band(percentile, 0, 0, 1, 7))

\* Percentile of _score_long_term_performance_relative: the share of the
\* annualized five-year returns that are not above the fund's.  The
\* annualized return ((1 + r / 100) ** (1/5) - 1) * 100 grows with r for
\* every r above -100 (percent), so the returns are compared in its place.
annualized_percentile(f, fs) ==
    [c |-> Cardinality({k \in Having(fs, "return_5year") :
                Val(fs[k].return_5year) <= Val(f.return_5year)}),
     n |-> Cardinality(Having(fs, "return_5year"))]

\* _score_long_term_performance_relative
score_long_term_performance_relative(f, fs) ==
    IF Having(fs, "return_5year") = {} THEN 12 * ScoreUnit
    ELSE IF f.return_5year = Absent THEN 12 * ScoreUnit
    ELSE LET percentile == annualized_percentile(f, fs)
         IN  IF AtLeast(percentile, 9) THEN Band(percentile, 22, 9, 1, 3)
             ELSE IF AtLeast(percentile, 7) THEN Band(percentile, 18, 7, 2, 3)
             ELSE IF AtLeast(percentile, 3) THEN Band(percentile, 14, 3, 4, 3)
             ELSE IF AtLeast(percentile, 1) THEN Band(percentile, 10, 1, 2, 3)
             ELSE Max0(Band(percentile, 0, 0, 1, 9))

\* percentile of _score_beats_benchmark_relative: the share of the excess
\* returns that are not above the fund's
\* a percentile over the whole list: the funds without an excess return stay
\* in the number it is divided by
excess_percentile_whole_list(f, fs) ==
    [c |-> Cardinality({k \in Having(fs, "beats_benchmark_amount") :
                Val(fs[k].beats_benchmark_amount) <= Val(f.beats_benchmark_amount)}),
     n |-> Len(fs)]

\* percentile of _score_beats_benchmark_relative: the share of the excess
\* returns that are not above the fund's
excess_percentile(f, fs) ==
    [c |-> Cardinality({k \in Having(fs, "beats_benchmark_amount") :
                Val(fs[k].beats_benchmark_amount) <= Val(f.beats_benchmark_amount)}),
     n |-> Cardinality(Having(fs, "beats_benchmark_amount"))]

\* _score_beats_benchmark_relative
score_beats_benchmark_relative(f, fs) ==
    IF Having(fs, "beats_benchmark_amount") = {} \/ f.beats_benchmark_amount = Absent
    THEN 5 * ScoreUnit
    ELSE LET percentile == excess_percentile(f, fs)
         IN  IF AtLeast(percentile, 9) THEN Band(percentile, 9, 9, 1, 1)
             ELSE IF AtLeast(percentile, 7) THEN Band(percentile, 7, 7, 2, 1)
             ELSE IF AtLeast(percentile, 3) THEN Band(percentile, 5, 3, 4, 1)
             ELSE IF AtLeast(percentile, 1) THEN Band(percentile, 2, 1, 2, 2)
             ELSE Max0(Band(percentile, 0, 0, 1, 1))

\* max(a, b), min(a, b)
Larger(a, b) == IF a >= b THEN a ELSE b
Smaller(a, b) == IF a <= b THEN a ELSE b

\* _score_fees, the rule by fixed thresholds: fee_pct = total_annual_fee * 100
\* is the fee in units of 0.01
score_fees(total_annual_fee) ==
    IF total_annual_fee = Absent THEN 8 * ScoreUnit
    ELSE LET fee_pct == Val(total_annual_fee)
         IN  IF fee_pct < 80 THEN 13 * ScoreUnit + ((80 - fee_pct) * 2 * ScoreUnit) \div 80
             ELSE IF fee_pct < 120 THEN 11 * ScoreUnit + ((120 - fee_pct) * ScoreUnit) \div 40
             ELSE IF fee_pct < 180 THEN 9 * ScoreUnit + ((180 - fee_pct) * ScoreUnit) \div 60
             ELSE IF fee_pct < 250 THEN 6 * ScoreUnit + ((250 - fee_pct) * 2 * ScoreUnit) \div 70
             ELSE Max0(5 * ScoreUnit - ((fee_pct - 250) * 5 * ScoreUnit) \div 50)

\* _score_scale, the rule by fixed thresholds, for a scale that is a whole
\* number
score_scale(scale) ==
    IF 2 <= scale /\ scale <= 50
    THEN IF scale < 10 THEN 12 * ScoreUnit + ((scale - 2) * 3 * ScoreUnit) \div 8
         ELSE IF scale < 30 THEN 15 * ScoreUnit
         ELSE 15 * ScoreUnit - ((scale - 30) * 3 * ScoreUnit) \div 20
    ELSE IF scale < 2
    THEN IF scale < 1 THEN 7 * scale * ScoreUnit
         ELSE 7 * ScoreUnit + (scale - 1) * 4 * ScoreUnit
    ELSE Larger(8 * ScoreUnit, 11 * ScoreUnit - ((scale - 50) * 3 * ScoreUnit) \div 50)

\* _score_short_term_performance, the rule by fixed thresholds
score_short_term_performance(yearly_return) ==
    IF yearly_return = Absent THEN 10 * ScoreUnit
    ELSE LET y == Val(yearly_return)
         IN  IF y > 2000
             THEN 18 * ScoreUnit + Smaller(2 * ScoreUnit, ((y - 2000) * 2 * ScoreUnit) \div 1000)
             ELSE IF y > 1000 THEN 15 * ScoreUnit + ((y - 1000) * 2 * ScoreUnit) \div 1000
             ELSE IF y > 0 THEN 12 * ScoreUnit + (y * 2 * ScoreUnit) \div 1000
             ELSE Max0((11 * (2000 + y) * ScoreUnit) \div 2000)

\* The days datetime.now() is in at each of its calls in one call of
\* _score_stability_relative, which asks for it once per fund of the list
\* that has an establish_date and then once more for the fund it scores:
\* clk.pool[k] for fund k of the list, clk.fund for the scored fund.  The
\* clock is at day d when the call starts and, if t <= n + 1, moves to the
\* next day just before its t-th reading.
Readings(n, d, t) ==
    [pool |-> [k \in 1..n |-> IF k >= t THEN d + 1 ELSE d],
     fund |-> IF t <= n + 1 THEN d + 1 ELSE d]

\* a percentile that counts only the ages below the fund's
ages_percentile_strict(f, fs, clk) ==
    [c |-> Cardinality({k \in Having(fs, "age") :
                Val(fs[k].age) + clk.pool[k] < Val(f.age) + clk.fund}),
     n |-> Cardinality(Having(fs, "age"))]

\* percentile of _score_stability_relative: the share of the ages that are
\* not above the fund's, each age being taken at the clock reading of its
\* computation
ages_percentile(f, fs, clk) ==
    [c |-> Cardinality({k \in Having(fs, "age") :
                Val(fs[k].age) + clk.pool[k] <= Val(f.age) + clk.fund}),
     n |-> Cardinality(Having(fs, "age"))]

\* _score_stability_relative
score_stability_relative(f, fs, clk) ==
    IF Having(fs, "age") = {} THEN 8 * ScoreUnit
    ELSE IF f.age = Absent THEN 8 * ScoreUnit
    ELSE LET percentile == ages_percentile(f, fs, clk)
         IN  IF AtLeast(percentile, 9) THEN Band(percentile, 12, 9, 1, 3)
             ELSE IF AtLeast(percentile, 7) THEN Band(percentile, 10, 7, 2, 1)
             ELSE IF AtLeast(percentile, 3) THEN Band(percentile, 8, 3, 4, 1)
             ELSE IF AtLeast(percentile, 1) THEN Band(percentile, 5, 1, 2, 2)
             ELSE Max0(Band(percentile, 0, 0, 1, 4))

\* score_fund: (total_score, scores); the keys of scores stand for the six
\* labels of the source, in its order.  ofs is the argument all_funds: Absent
\* for None, else Some(list).
score_fund(f, ofs, clk) ==
    LET fs == IF ofs = Absent THEN <<f>> ELSE Val(ofs)
        fee_score == score_fees_relative(f, fs)
        scale_score == score_scale_relative(f, fs)
        short_term_score == score_short_term_performance_relative(f, fs)
        long_term_score == score_long_term_performance_relative(f, fs)
        benchmark_score == score_beats_benchmark_relative(f, fs)
        stability_score == score_stability_relative(f, fs, clk)
    IN  [score |-> 0 + fee_score + scale_score + short_term_score + long_term_score
                   + benchmark_score + stability_score,
         breakdown |-> [fees |-> fee_score, scale |-> scale_score,
                        short_term |-> short_term_score, long_term |-> long_term_score,
                        benchmark |-> benchmark_score, stability |-> stability_score]]

\* a sort that leaves the list as it is
KeptInOrder(es) == es

\* the list sorted by score, highest first, as list.sort(key=..., reverse=True)
\* does it: entries of equal score keep the order they had
RECURSIVE SortedByScore(_)
SortedByScore(es) ==
    IF es = << >> THEN << >>
    ELSE LET rest == SortedByScore(SubSeq(es, 1, Len(es) - 1))
             e == es[Len(es)]
             before == {k \in 1..Len(rest) : rest[k].score >= e.score}
             at == Cardinality(before)
         IN  SubSeq(rest, 1, at) \o <<e>> \o SubSeq(rest, at + 1, Len(rest))

\* analyze_sector has not got to its scoring
ScoringIdle ==
    /\ all_funds = << >>
    /\ scored_funds = << >>
    /\ today = 0
    /\ spc = "idle"
    /\ table = << >>

\* ---------------------------------------------------------------------------
\* Initial state: the client is constructed, batch_get_fund_data is about to
\* be called with some identifier sequence
\* ---------------------------------------------------------------------------
Init ==
    /\ max_concurrent \in Concurrency
    /\ semaphore = max_concurrent
    /\ fund_codes \in SeqsUpTo(Codes, MaxLen)
    /\ bpc = "call"
    /\ i = 0
    /\ funds = << >>
    /\ failed = << >>
    /\ returned = << >>
    /\ tpc = [j \in Slots |-> "none"]
    /\ result = [j \in Slots |-> NoResult]
    /\ req = [j \in Slots |-> [e \in Endpoints |-> IdleReq]]
    /\ status = [p \in 1..Len(fund_codes) |-> "pending"]
    /\ cause = [j \in Slots |-> "-"]
    /\ raised = [j \in Slots |-> FALSE]
    /\ cancelled = FALSE
    /\ NormalizerIdle
    /\ ScoringIdle

\* ---------------------------------------------------------------------------
\* batch_get_fund_data
\* ---------------------------------------------------------------------------

\* asyncio.gather(*[self.get_fund_data(code) for code in batch]) for the chunk
\* that starts at index i0: one get_fund_data task per identifier, each of
\* which gathers its three _fetch_api tasks, which queue for the semaphore.
Dispatch(i0) ==
    LET n == Min(i0 + max_concurrent, Len(fund_codes)) - i0 IN
    /\ i' = i0
    /\ bpc' = "gather"
    /\ tpc' = [j \in Slots |-> IF j <= n THEN "gather" ELSE "none"]
    /\ result' = [j \in Slots |-> NoResult]
    /\ cause' = [j \in Slots |-> "-"]
    /\ raised' = [j \in Slots |-> FALSE]
    /\ req' = [j \in Slots |-> [e \in Endpoints |->
                 IF j <= n THEN [IdleReq EXCEPT !.pc = "acquire"] ELSE IdleReq]]
    /\ status' = [p \in 1..Len(fund_codes) |->
                 IF p \in (i0 + 1)..(i0 + n) THEN "active" ELSE status[p]]

\* the summary and "return funds" after the loop
Return(fs) ==
    /\ bpc' = "done"
    /\ returned' = fs
    /\ tpc' = [j \in Slots |-> "none"]
    /\ result' = [j \in Slots |-> NoResult]
    /\ cause' = [j \in Slots |-> "-"]
    /\ raised' = [j \in Slots |-> FALSE]
    /\ req' = [j \in Slots |-> [e \in Endpoints |-> IdleReq]]
    /\ UNCHANGED <<i, status>>

\* a batch_get_fund_data that takes an empty fund_codes for an error
CallRejectsEmpty ==
    /\ bpc = "call"
    /\ IF 0 < Len(fund_codes)
       THEN Dispatch(0) /\ UNCHANGED returned
       ELSE /\ bpc' = "raised"
            /\ UNCHANGED <<i, tpc, result, cause, raised, req, status, returned>>
    /\ UNCHANGED <<nvars, svars, max_concurrent, semaphore, fund_codes, funds, failed, cancelled>>

\* entry of batch_get_fund_data up to its first await
Call ==
    /\ bpc = "call"
    /\ IF 0 < Len(fund_codes)
       THEN Dispatch(0) /\ UNCHANGED returned
       ELSE Return(funds)
    /\ UNCHANGED <<nvars, svars, max_concurrent, semaphore, fund_codes, funds, failed, cancelled>>

\* a loop that moves on by one identifier instead of by a chunk
ChunkDoneStepOne ==
    /\ bpc = "gather"
    /\ ~cancelled
    /\ ChunkSettled
    /\ funds' = CollectFunds(1, funds)
    /\ failed' = CollectFailed(1, failed)
    /\ IF i + 1 < Len(fund_codes)
       THEN Dispatch(i + 1) /\ UNCHANGED returned
       ELSE Return(funds')
    /\ UNCHANGED <<nvars, svars, max_concurrent, semaphore, fund_codes, cancelled>>

\* the gather of the chunk returns: collect its results, then start the next
\* chunk or return
ChunkDone ==
    /\ bpc = "gather"
    /\ ~cancelled
    /\ ChunkSettled
    /\ funds' = CollectFunds(1, funds)
    /\ failed' = CollectFailed(1, failed)
    /\ IF i + max_concurrent < Len(fund_codes)
       THEN Dispatch(i + max_concurrent) /\ UNCHANGED returned
       ELSE Return(funds')
    /\ UNCHANGED <<nvars, svars, max_concurrent, semaphore, fund_codes, cancelled>>

\* ---------------------------------------------------------------------------
\* _fetch_api, one task per slot j and endpoint e
\* ---------------------------------------------------------------------------

\* The place of a request in the waiters queue of the semaphore.  gather
\* creates the get_fund_data tasks in the order of the chunk and each creates
\* its three requests in the order common-data, performance, fees; the event
\* loop starts tasks in creation order and asyncio.Semaphore wakes its
\* waiters first in, first out.
QueueRank(j, e) ==
    3 * (j - 1) + (CASE e = "common-data" -> 1 [] e = "performance" -> 2 [] OTHER -> 3)

\* the request is the first of those waiting for a permit
FirstWaiter(j, e) ==
    \A j2 \in Slots, e2 \in Endpoints :
        req[j2][e2].pc = "acquire" => QueueRank(j, e) <= QueueRank(j2, e2)

\* Acquire without the wait for a free permit
AcquireUnguarded(j, e) ==
    /\ req[j][e].pc = "acquire"
    /\ FirstWaiter(j, e)
    /\ semaphore' = semaphore - 1
    /\ req' = [req EXCEPT ![j][e].pc = "get", ![j][e].nreq = @ + 1]
    /\ UNCHANGED <<nvars, svars, max_concurrent, fund_codes, bpc, i, funds, failed, returned,
                   tpc, result, status, cause, raised, cancelled>>

\* "async with self.semaphore" is entered and client.get(url) is sent
Acquire(j, e) ==
    /\ req[j][e].pc = "acquire"
    /\ FirstWaiter(j, e)
    /\ semaphore > 0
    /\ semaphore' = semaphore - 1
    /\ req' = [req EXCEPT ![j][e].pc = "get", ![j][e].nreq = @ + 1]
    /\ UNCHANGED <<nvars, svars, max_concurrent, fund_codes, bpc, i, funds, failed, returned,
                   tpc, result, status, cause, raised, cancelled>>

\* Respond with the delay at the end of the try body instead of in finally:
\* an answer that raises leaves the semaphore without the delay
RespondDelayInTry(j, e, o) ==
    /\ req[j][e].pc = "get"
    /\ IF o \in {"404", "http", "exc", "json"}
       THEN /\ req' = [req EXCEPT ![j][e].pc = "done", ![j][e].ret = FetchResult(o)]
            /\ semaphore' = semaphore + 1
       ELSE /\ req' = [req EXCEPT ![j][e].pc = IF o = "429" THEN "sleep429" ELSE "finally",
                                  ![j][e].ret = FetchResult(o)]
            /\ UNCHANGED semaphore
    /\ cause' = IF e = "common-data" THEN [cause EXCEPT ![j] = CauseOf(o)] ELSE cause
    /\ UNCHANGED <<nvars, svars, max_concurrent, fund_codes, bpc, i, funds, failed,
                   returned, tpc, result, status, raised, cancelled>>

\* the provider answers with o: the try body or one of the except clauses runs
\* up to the next await (sleep(5) after a 429, else the sleep of finally)
Respond(j, e, o) ==
    /\ req[j][e].pc = "get"
    /\ req' = [req EXCEPT ![j][e].pc = IF o = "429" THEN "sleep429" ELSE "finally",
                          ![j][e].ret = FetchResult(o)]
    /\ cause' = IF e = "common-data" THEN [cause EXCEPT ![j] = CauseOf(o)] ELSE cause
    /\ UNCHANGED <<nvars, svars, max_concurrent, semaphore, fund_codes, bpc, i, funds, failed,
                   returned, tpc, result, status, raised, cancelled>>

\* the 429 branch sends the request again after its sleep
Wake429Retry(j, e) ==
    /\ req[j][e].pc = "sleep429"
    /\ req' = [req EXCEPT ![j][e].pc = "get", ![j][e].nreq = @ + 1]
    /\ UNCHANGED <<nvars, svars, max_concurrent, semaphore, fund_codes, bpc, i, funds, failed,
                   returned, tpc, result, status, cause, raised, cancelled>>

\* asyncio.sleep(5) of the 429 branch is over: return None, into finally
Wake429(j, e) ==
    /\ req[j][e].pc = "sleep429"
    /\ req' = [req EXCEPT ![j][e].pc = "finally"]
    /\ UNCHANGED <<nvars, svars, max_concurrent, semaphore, fund_codes, bpc, i, funds, failed,
                   returned, tpc, result, status, cause, raised, cancelled>>

\* a task that ends without giving its permit back
ReleaseKeepsPermit(j, e) ==
    /\ req[j][e].pc = "finally"
    /\ req' = [req EXCEPT ![j][e].pc = "done", ![j][e].delayed = TRUE]
    /\ UNCHANGED <<nvars, svars, max_concurrent, semaphore, fund_codes, bpc, i, funds, failed,
                   returned, tpc, result, status, cause, raised, cancelled>>

\* asyncio.sleep(self.request_delay) of finally is over: the semaphore is
\* left and the task ends
Release(j, e) ==
    /\ req[j][e].pc = "finally"
    /\ semaphore' = semaphore + 1
    /\ req' = [req EXCEPT ![j][e].pc = "done", ![j][e].delayed = TRUE]
    /\ UNCHANGED <<nvars, svars, max_concurrent, fund_codes, bpc, i, funds, failed, returned,
                   tpc, result, status, cause, raised, cancelled>>

\* ---------------------------------------------------------------------------
\* get_fund_data, one task per slot j
\* ---------------------------------------------------------------------------

\* the three requests the gather of get_fund_data waits for have ended
RequestsSettled(j) == \A e \in Endpoints : Ended(req[j][e])

\* the gather of get_fund_data returns (or raises CancelledError) and the
\* task runs to its end; raises is read off the payloads, which are opaque
\* until then
Settle(j, raises) ==
    /\ tpc[j] = "gather"
    /\ RequestsSettled(j)
    /\ LET r == IF cancelled THEN Cancelled
                ELSE GetFundDataResult(batch[j], req[j]["common-data"].ret,
                                       req[j]["performance"].ret, req[j]["fees"].ret,
                                       raises)
       IN /\ result' = [result EXCEPT ![j] = r]
          /\ status' = [status EXCEPT ![PosOf(j)] =
                          CASE r.kind = "FundData" -> "ok"
                            [] r = None -> "failed"
                            [] OTHER -> "cancelled"]
    /\ raised' = [raised EXCEPT ![j] =
                     ~cancelled /\ Truthy(req[j]["common-data"].ret) /\ raises]
    /\ tpc' = [tpc EXCEPT ![j] = "done"]
    /\ UNCHANGED <<nvars, svars, max_concurrent, semaphore, fund_codes, bpc, i, funds, failed,
                   returned, req, cause, cancelled>>

\* ---------------------------------------------------------------------------
\* Cancellation of the caller while it awaits the gather of a chunk
\* ---------------------------------------------------------------------------

\* CancelledError delivered to a _fetch_api task at the await it is at:
\* queued for the semaphore it leaves the queue; in client.get or sleep(5) it
\* passes "except Exception" and runs finally; in the sleep of finally it
\* leaves the semaphore at once.  The task then ends with CancelledError
\* instead of a value, and the value of a task that had ended is dropped with
\* the cancelled gather of get_fund_data that was to collect it.
CancelReq(r) ==
    CASE r.pc = "acquire" -> [r EXCEPT !.pc = "cancelled", !.ret = "-"]
      [] r.pc = "get" -> [r EXCEPT !.pc = "finally", !.ret = "-"]
      [] r.pc = "sleep429" -> [r EXCEPT !.pc = "finally", !.ret = "-"]
      [] r.pc = "finally" -> [r EXCEPT !.pc = "cancelled", !.ret = "-"]
      [] OTHER -> [r EXCEPT !.ret = "-"]

\* the task that awaits batch_get_fund_data is cancelled: the gather cancels
\* every get_fund_data task that has not ended, and those their requests
Cancel ==
    /\ bpc = "gather"
    /\ ~cancelled
    /\ cancelled' = TRUE
    /\ req' = [j \in Slots |-> [e \in Endpoints |->
                 IF tpc[j] = "gather" THEN CancelReq(req[j][e]) ELSE req[j][e]]]
    /\ semaphore' = semaphore + Cardinality({<<j, e>> \in Slots \X Endpoints :
                        tpc[j] = "gather" /\ req[j][e].pc = "finally"})
    /\ cause' = [j \in Slots |-> IF tpc[j] = "gather" THEN "-" ELSE cause[j]]
    /\ UNCHANGED <<nvars, svars, max_concurrent, fund_codes, bpc, i, funds, failed, returned,
                   tpc, result, status, raised>>

\* a batch_get_fund_data that swallows CancelledError and goes on with its loop
AbortSwallowed ==
    /\ bpc = "gather"
    /\ cancelled
    /\ ChunkSettled
    /\ IF i + max_concurrent < Len(fund_codes)
       THEN Dispatch(i + max_concurrent) /\ UNCHANGED returned
       ELSE Return(funds)
    /\ UNCHANGED <<nvars, svars, max_concurrent, semaphore, fund_codes, funds, failed, cancelled>>

\* every task of the cancelled gather has ended: CancelledError is raised in
\* batch_get_fund_data, which has no handler and so returns nothing
Abort ==
    /\ bpc = "gather"
    /\ cancelled
    /\ ChunkSettled
    /\ bpc' = "cancelled"
    /\ UNCHANGED <<nvars, svars, max_concurrent, semaphore, fund_codes, i, funds, failed, returned,
                   tpc, result, req, status, cause, raised, cancelled>>

\* ---------------------------------------------------------------------------
\* Specification
\* ---------------------------------------------------------------------------
Next ==
    \/ Call
    \/ ChunkDone
    \/ \E j \in Slots, e \in Endpoints : Acquire(j, e)
    \/ \E j \in Slots, e \in Endpoints, o \in Outcomes : Respond(j, e, o)
    \/ \E j \in Slots, e \in Endpoints : Wake429(j, e)
    \/ \E j \in Slots, e \in Endpoints : Release(j, e)
    \/ \E j \in Slots, raises \in BOOLEAN : Settle(j, raises)
    \/ Cancel
    \/ Abort

Spec == Init /\ [][Next]_vars

\* A call that is not cancelled, in which every request is answered, every
\* sleep ends and the event loop runs every task that can run.  No branch of
\* batch_get_fund_data, get_fund_data or _fetch_api depends on the value of
\* an identifier, so the sequences of one code stand for all of a length.
FairInit == Init /\ \A p \in DOMAIN fund_codes : fund_codes[p] = "A"

FairNext ==
    \/ Call
    \/ ChunkDone
    \/ \E j \in Slots, e \in Endpoints : Acquire(j, e)
    \/ \E j \in Slots, e \in Endpoints, o \in Outcomes : Respond(j, e, o)
    \/ \E j \in Slots, e \in Endpoints : Wake429(j, e)
    \/ \E j \in Slots, e \in Endpoints : Release(j, e)
    \/ \E j \in Slots, raises \in BOOLEAN : Settle(j, raises)

FairSpec ==
    /\ FairInit
    /\ [][FairNext]_vars
    /\ WF_vars(Call)
    /\ WF_vars(ChunkDone)
    /\ WF_vars(\E j \in Slots, e \in Endpoints : Acquire(j, e))
    /\ WF_vars(\E j \in Slots, e \in Endpoints, o \in Outcomes : Respond(j, e, o))
    /\ WF_vars(\E j \in Slots, e \in Endpoints : Wake429(j, e))
    /\ WF_vars(\E j \in Slots, e \in Endpoints : Release(j, e))
    /\ WF_vars(\E j \in Slots, raises \in BOOLEAN : Settle(j, raises))

\* ---------------------------------------------------------------------------
\* Specification of get_fund_data on its own: every identifier and every pair
\* of payloads, common_data being truthy
\* ---------------------------------------------------------------------------

\* no batch_get_fund_data runs
BatchIdle ==
    /\ max_concurrent = 1
    /\ semaphore = 1
    /\ fund_codes = << >>
    /\ bpc = "call"
    /\ i = 0
    /\ funds = << >>
    /\ failed = << >>
    /\ returned = << >>
    /\ tpc = [j \in Slots |-> "none"]
    /\ result = [j \in Slots |-> NoResult]
    /\ req = [j \in Slots |-> [e \in Endpoints |-> IdleReq]]
    /\ status = << >>
    /\ cause = [j \in Slots |-> "-"]
    /\ raised = [j \in Slots |-> FALSE]
    /\ cancelled = FALSE

bvars == <<max_concurrent, semaphore, fund_codes, bpc, i, funds, failed, returned,
           tpc, result, req, status, cause, raised, cancelled>>

\* the gather of get_fund_data has returned the payloads
NormalizerInit ==
    /\ BatchIdle
    /\ ScoringIdle
    /\ fund_code \in FundCodes
    /\ performance_data \in PerformancePayloads
    /\ fees_data \in FeesPayloads
    /\ fund_data = NoResult

\* get_fund_data from "if not common_data" to its return
GetFundData ==
    /\ fund_data = NoResult
    /\ fund_data' = BuildFundData(fund_code, performance_data, fees_data)
    /\ UNCHANGED <<bvars, svars, fund_code, performance_data, fees_data>>

NormalizerNext == GetFundData

NormalizerSpec == NormalizerInit /\ [][NormalizerNext]_vars

\* ---------------------------------------------------------------------------
\* Specification of the scoring loop of analyze_sector: every list of one to
\* MaxFunds funds of the pool, scored fund by fund against the whole list
\* ---------------------------------------------------------------------------

\* batch_get_fund_data has returned a list that is not empty and the scoring
\* loop is about to start; or, with no list, score_fund is about to be called
\* for a fund on its own
ScoringInit ==
    /\ BatchIdle
    /\ NormalizerIdle
    /\ all_funds \in FundLists \cup {<< >>}
    /\ scored_funds = << >>
    /\ today = 0
    /\ spc = "score"
    /\ table = << >>

\* One turn of "for fund in funds": score_fund(fund, all_funds=funds) and the
\* append to scored_funds.  The clock may pass midnight once in the whole run,
\* before any of the readings of the turn (t) or not in this turn
\* (t = Len(all_funds) + 2).  clock keeps the readings of the turn.
ScoreFund(t) ==
    /\ spc = "score"
    /\ Len(scored_funds) < Len(all_funds)
    /\ today = 1 => t = Len(all_funds) + 2
    /\ LET fund == all_funds[Len(scored_funds) + 1]
           clk == Readings(Len(all_funds), today, t)
           sc == score_fund(fund, Some(all_funds), clk)
       IN  /\ scored_funds' = Append(scored_funds,
                  [fund |-> fund, score |-> sc.score, breakdown |-> sc.breakdown,
                   clock |-> clk])
           /\ today' = clk.fund
    /\ UNCHANGED <<bvars, nvars, all_funds, spc, table>>

\* score_fund(fund), called without a list
ScoreFundAlone(f) ==
    /\ spc = "score"
    /\ all_funds = << >>
    /\ LET clk == Readings(1, today, 3)
           sc == score_fund(f, Absent, clk)
       IN  scored_funds' = <<[fund |-> f, score |-> sc.score, breakdown |-> sc.breakdown,
                              clock |-> clk]>>
    /\ spc' = "alone"
    /\ UNCHANGED <<bvars, nvars, all_funds, today, table>>

\* scored_funds.sort(key=lambda x: x["score"], reverse=True) after the loop
Sort ==
    /\ spc = "score"
    /\ all_funds # << >>
    /\ Len(scored_funds) = Len(all_funds)
    /\ scored_funds' = SortedByScore(scored_funds)
    /\ spc' = "sorted"
    /\ UNCHANGED <<bvars, nvars, all_funds, today, table>>

\* the rows of the ranking table of export_tool_scores_to_markdown:
\* enumerate(scored_funds[:20], 1)
Rows(es) ==
    [k \in 1..(IF Len(es) < TopN THEN Len(es) ELSE TopN) |->
        [rank |-> k, code |-> es[k].fund.code, score |-> es[k].score]]

\* export_tool_scores_to_markdown(sector_name, scored_funds)
Export ==
    /\ spc = "sorted"
    /\ table' = Rows(scored_funds)
    /\ spc' = "exported"
    /\ UNCHANGED <<bvars, nvars, all_funds, scored_funds, today>>

ScoringNext ==
    \/ \E t \in 1..(Len(all_funds) + 2) : ScoreFund(t)
    \/ \E f \in FundPool : ScoreFundAlone(f)
    \/ Sort
    \/ Export

ScoringSpec == ScoringInit /\ [][ScoringNext]_vars

\* ---------------------------------------------------------------------------
\* Properties
\* ---------------------------------------------------------------------------

\* the requests inside the semaphore section of _fetch_api
InFlight == {je \in Slots \X Endpoints : req[je[1]][je[2]].pc \in {"get", "sleep429", "finally"}}

\* C1: at every moment at most max_concurrent requests are inside the semaphore
\* section of _fetch_api, and the free permits and the requests inside add up
\* to max_concurrent.
C1_InFlightAtMostK ==
    /\ Cardinality(InFlight) <= max_concurrent
    /\ semaphore + Cardinality(InFlight) = max_concurrent

\* C1 happens: two permits, both taken, and a third request waits for one
C1_Witness ==
    /\ max_concurrent = 2
    /\ Cardinality(InFlight) = 2
    /\ \E j \in Slots, e \in Endpoints : req[j][e].pc = "acquire"

ChunkOf(p) == (p - 1) \div max_concurrent

\* the get_fund_data call of position p has ended
Settled(p) == status[p] \in {"ok", "failed", "cancelled"}

\* C3: a get_fund_data call of a later chunk is started only when every call
\* of the earlier chunks has settled, and at most max_concurrent calls are
\* active at a time.
C3_ChunksDoNotOverlap ==
    /\ \A p, q \in DOMAIN status :
          (ChunkOf(p) < ChunkOf(q) /\ status[q] # "pending") => Settled(p)
    /\ Cardinality({p \in DOMAIN status : status[p] = "active"}) <= max_concurrent

\* C3 happens: the second chunk is in flight after a first chunk of two calls,
\* one of which failed
C3_Witness ==
    /\ max_concurrent = 2
    /\ Len(fund_codes) = 3
    /\ status[3] = "active"
    /\ status[1] = "failed"
    /\ status[2] = "ok"

\* the input positions whose get_fund_data call returned an entity
OkPositions == {p \in DOMAIN status : status[p] = "ok"}

\* C4: the returned collection holds at most one entity per identifier.
C4_OneEntityPerIdentifier ==
    bpc = "done" =>
        \A a, b \in 1..Len(returned) : a # b => returned[a].code # returned[b].code

\* C5: when batch_get_fund_data has finished, every identifier whose fetch
\* failed is in the failure list.
C5_EveryFailureListed ==
    bpc = "done" =>
        \A p \in DOMAIN status :
            status[p] = "failed" => \E k \in 1..Len(failed) : failed[k] = fund_codes[p]

\* C6: a failed fetch takes nothing away from the others: batch_get_fund_data
\* returns one entity for every call that produced one, under the identifier
\* of that call, and nothing else; with every fetch failed it returns the
\* empty list.  Short of a cancellation it never ends without returning.
C6_FailuresStayLocal ==
    /\ bpc = "done" =>
          /\ Len(returned) = Cardinality(OkPositions)
          /\ \A p \in OkPositions : \E k \in 1..Len(returned) :
                returned[k].code = fund_codes[p]
          /\ \A c \in Codes :
                Cardinality({k \in 1..Len(returned) : returned[k].code = c})
                   = Cardinality({p \in OkPositions : fund_codes[p] = c})
    /\ bpc = "cancelled" => cancelled
    /\ (bpc = "gather" /\ ~cancelled /\ ChunkSettled) => ENABLED ChunkDone

\* C6 happens: three identifiers, the first and the last failed, the second is
\* returned
C6_Witness ==
    /\ bpc = "done"
    /\ Len(fund_codes) = 3
    /\ status[1] = "failed" /\ status[2] = "ok" /\ status[3] = "failed"
    /\ Len(returned) = 1
    /\ returned[1].code = fund_codes[2]

\* the get_fund_data task of slot j has returned (an entity or None)
Returned(j) == tpc[j] = "done" /\ result[j] # Cancelled

C9_RateLimitTransparent ==
    \A j \in Slots :
        (Returned(j) /\ cause[j] = "429") => result[j].kind = "FundData"

\* C10 (as claimed): after a cancellation no later chunk is started and the
\* entities collected so far are handed to the caller.
C10_PartialResultsReturned ==
    bpc = "cancelled" =>
        /\ \A p \in DOMAIN status : ChunkOf(p) > ChunkOf(i + 1) => status[p] = "pending"
        /\ returned = funds

\* C10 (amended): after a cancellation no get_fund_data call of a later chunk
\* is started, and batch_get_fund_data never returns: the entities collected
\* from the earlier chunks are handed to nobody.
C10_CancelStopsAndDiscards ==
    /\ [](cancelled => (bpc # "done" /\ returned = << >>))
    /\ [][cancelled => \A p \in DOMAIN status :
                         status[p] = "pending" => status'[p] = "pending"]_vars

\* C10 happens: the call ended by cancellation with an entity collected and an
\* identifier never started
C10_Witness ==
    /\ bpc = "cancelled"
    /\ funds # << >>
    /\ \E p \in DOMAIN status : status[p] = "pending"

\* C11: called with an empty identifier sequence, batch_get_fund_data makes no
\* request (no _fetch_api task exists and no permit is taken at any moment),
\* does not raise, and what it returns is the empty list.
C11_EmptyInputEmptyOutput ==
    fund_codes = << >> =>
        /\ bpc \in {"call", "done"}
        /\ \A j \in Slots, e \in Endpoints : req[j][e] = IdleReq
        /\ semaphore = max_concurrent
        /\ returned = << >> /\ funds = << >> /\ failed = << >>

\* C11 happens: the call with the empty sequence has returned
C11_Witness ==
    /\ fund_codes = << >>
    /\ bpc = "done"

\* get_fund_data has returned an entity
Produced == fund_data.kind = "FundData"

\* the sum of the seven fee components of an entity
SumOfFees(f) ==
    f.management_fee + f.custody_fee + f.subscription_fee + f.redemption_fee
    + f.sales_service_fee + f.transaction_cost + f.other_fees

\* the total of every entity is the sum of its seven fee components
TotalIsSumOfFees == Produced => fund_data.total_annual_fee = SumOfFees(fund_data)

\* C12: every entity get_fund_data produces, from a fee payload or from the
\* default fee profile, has total_annual_fee equal to the sum of its seven fee
\* components and total_annual_fee >= 0.
C12_TotalIsSumAndNonNegative ==
    Produced =>
        /\ fund_data.total_annual_fee = SumOfFees(fund_data)
        /\ fund_data.total_annual_fee >= 0

\* the fee fields of an entity next to the fields of "fees" they are read from
\* and the value (in percent) used for a field that is missing
FeeFields ==
    {<<"management_fee", "managementFee", 1500>>, <<"custody_fee", "custodianFee", 500>>,
     <<"sales_service_fee", "distributionFee", 0>>, <<"transaction_cost", "tradeCost", 0>>,
     <<"other_fees", "otherCost", 0>>}

\* the return fields of an entity next to the fields of the payload
ReturnFields == {<<"yearly_return", "YTD">>, <<"return_3year", "Y3">>, <<"return_5year", "Y5">>}

\* an entity was produced from a payload with fee numbers / with return numbers
FromFees == Produced /\ fees_data.kind = "fees"
FromPerformance == Produced /\ performance_data.kind = "dict"

C14_DefaultsWhenAbsent ==
    /\ (Produced /\ fees_data.kind \in {"None", "{}", "no-fees"}) =>
         /\ fund_data.management_fee = 15
         /\ fund_data.custody_fee = 5
         /\ fund_data.subscription_fee = 0
         /\ fund_data.redemption_fee = 0
         /\ fund_data.sales_service_fee = 0
         /\ fund_data.transaction_cost = 0
         /\ fund_data.other_fees = 0
         /\ fund_data.total_annual_fee = 20
    /\ (Produced /\ performance_data.kind \in {"None", "{}"}) =>
         /\ fund_data.yearly_return = Absent
         /\ fund_data.return_3year = Absent
         /\ fund_data.return_5year = Absent

\* C14 happens: an entity built with neither a fees nor a performance payload
C14_Witness ==
    /\ Produced
    /\ fees_data = None
    /\ performance_data = None

\* the provider's year-to-date return of the benchmark, if it gave one
ProviderBenchmarkYTD ==
    IF performance_data.kind = "dict" THEN performance_data.benchmarkYTD ELSE Absent

\* C15: in every entity beats_benchmark and beats_benchmark_amount are both
\* present or both absent, and they are present exactly when the entity's
\* year-to-date return and the provider's year-to-date benchmark return are
\* both present.
C15_ExcessPresentIffBothReturns ==
    Produced =>
        /\ (fund_data.beats_benchmark = Absent) <=> (fund_data.beats_benchmark_amount = Absent)
        /\ (fund_data.beats_benchmark # Absent) <=>
             (fund_data.yearly_return # Absent /\ ProviderBenchmarkYTD # Absent)

\* C15 happens: an entity with a year-to-date return of 0 and no benchmark
\* return, and so without the comparison
C15_Witness ==
    /\ Produced
    /\ fund_data.yearly_return = Some(0)
    /\ ProviderBenchmarkYTD = Absent
    /\ fund_data.beats_benchmark = Absent

\* C16: in every entity whose excess return is present, beats_benchmark is
\* true exactly when the stored (rounded) beats_benchmark_amount is above 0.
C16_BeatsIffStoredExcessPositive ==
    (Produced /\ fund_data.beats_benchmark_amount # Absent) =>
        /\ fund_data.beats_benchmark # Absent
        /\ Val(fund_data.beats_benchmark) <=> (Val(fund_data.beats_benchmark_amount) > 0)

\* the identifier has the digits ds at its start
Begins(ds) == \A k \in 1..Len(ds) : k <= Len(fund_code) /\ fund_code[k] = ds[k]

\* C17: the fund_type of every entity is on-exchange exactly when its
\* identifier starts with 51, 588, 159, 16 or 15, and off-exchange for every
\* other identifier, whatever the payloads are.
C17_CategoryFromPrefix ==
    Produced =>
        /\ fund_data.code = fund_code
        /\ fund_data.fund_type =
             IF \/ Begins(<<5, 1>>) \/ Begins(<<5, 8, 8>>) \/ Begins(<<1, 5, 9>>)
                \/ Begins(<<1, 6>>) \/ Begins(<<1, 5>>)
             THEN "on-exchange" ELSE "off-exchange"

\* C17 happens: 588 is on-exchange and 58 is not, each with payloads present
C17_Witness ==
    /\ Produced
    /\ FromFees /\ FromPerformance
    /\ \/ fund_code = <<5, 8, 8>> /\ fund_data.fund_type = "on-exchange"
       \/ fund_code = <<5, 8>> /\ fund_data.fund_type = "off-exchange"

\* the entries of scored_funds
Scored == {scored_funds[k] : k \in DOMAIN scored_funds}

\* the loop of analyze_sector has scored every fund of the list
AllScored == all_funds # << >> /\ Len(scored_funds) = Len(all_funds)

\* the six factor scores next to the most each can be
Caps ==
    {<<"fees", 15>>, <<"scale", 15>>, <<"short_term", 20>>, <<"long_term", 25>>,
     <<"benchmark", 10>>, <<"stability", 15>>}

\* C18: for every fund scored against a list that is not empty, each factor
\* score is within its dimension (fee 0..15, scale 0..15, short-term 0..20,
\* long-term 0..25, excess return 0..10, stability 0..15), the composite is
\* the sum of the six, and the composite is within 0..100.
C18_ScoresWithinBounds ==
    \A e \in Scored :
        /\ \A cap \in Caps :
              /\ e.breakdown[cap[1]] >= 0
              /\ e.breakdown[cap[1]] <= cap[2] * ScoreUnit
        /\ e.score = e.breakdown.fees + e.breakdown.scale + e.breakdown.short_term
                     + e.breakdown.long_term + e.breakdown.benchmark + e.breakdown.stability
        /\ e.score >= 0
        /\ e.score <= 100 * ScoreUnit

\* C18 happens: a list is scored in which one fund has every factor at its
\* cap (composite 100) and another has a percentile below 0.1 in fees
C18_Witness ==
    /\ AllScored
    /\ \E e \in Scored : e.score = 100 * ScoreUnit
    /\ \E e \in Scored :
          /\ e.fund.total_annual_fee # Absent
          /\ 10 * fees_percentile(e.fund, all_funds).c < fees_percentile(e.fund, all_funds).n
          /\ e.breakdown.fees < 5 * ScoreUnit

\* the percentile p is at least the percentile q
PercentileGeq(p, q) == p.c * q.n >= q.c * p.n

\* C19: in one list, whenever the field of a fund A is strictly better than
\* the field of a fund B in a dimension (lower fee, scale nearer to 26, higher
\* year-to-date return, higher five-year return, higher excess return, greater
\* age), A's percentile is at least B's and A's factor score is at least B's.
C19_BetterFieldNotLowerScore ==
    \A a \in Scored, b \in Scored :
        LET A == a.fund
            B == b.fund
        IN  /\ (A.total_annual_fee # Absent /\ B.total_annual_fee # Absent
                 /\ Val(A.total_annual_fee) < Val(B.total_annual_fee)) =>
                   /\ PercentileGeq(fees_percentile(A, all_funds), fees_percentile(B, all_funds))
                   /\ a.breakdown.fees >= b.breakdown.fees
            /\ (Abs(A.scale - 26) < Abs(B.scale - 26)) =>
                   /\ PercentileGeq(scale_percentile(A, all_funds), scale_percentile(B, all_funds))
                   /\ a.breakdown.scale >= b.breakdown.scale
            /\ (A.yearly_return # Absent /\ B.yearly_return # Absent
                 /\ Val(A.yearly_return) > Val(B.yearly_return)) =>
                   /\ PercentileGeq(returns_percentile(A, all_funds),
                                    returns_percentile(B, all_funds))
                   /\ a.breakdown.short_term >= b.breakdown.short_term
            /\ (A.return_5year # Absent /\ B.return_5year # Absent
                 /\ Val(A.return_5year) > Val(B.return_5year)) =>
                   /\ PercentileGeq(annualized_percentile(A, all_funds),
                                    annualized_percentile(B, all_funds))
                   /\ a.breakdown.long_term >= b.breakdown.long_term
            /\ (A.beats_benchmark_amount # Absent /\ B.beats_benchmark_amount # Absent
                 /\ Val(A.beats_benchmark_amount) > Val(B.beats_benchmark_amount)) =>
                   /\ PercentileGeq(excess_percentile(A, all_funds),
                                    excess_percentile(B, all_funds))
                   /\ a.breakdown.benchmark >= b.breakdown.benchmark
            /\ (A.age # Absent /\ B.age # Absent /\ Val(A.age) > Val(B.age)) =>
                   /\ PercentileGeq(ages_percentile(A, all_funds, a.clock),
                                    ages_percentile(B, all_funds, b.clock))
                   /\ a.breakdown.stability >= b.breakdown.stability

\* C19 happens: a list of four funds is scored in which one fund is strictly
\* better than another in all six fields and has the higher score in each
C19_Witness ==
    /\ AllScored
    /\ Len(all_funds) = 4
    /\ \E a \in Scored, b \in Scored :
          /\ a.fund = BestFund
          /\ b.fund = WorstFund
          /\ \A cap \in Caps : a.breakdown[cap[1]] > b.breakdown[cap[1]]

\* the percentile 1.0
One == [c |-> 1, n |-> 1]

\* C20: for a list of a single fund, every dimension the fund has data for
\* has percentile 1.0 and a factor score in the top band of the dimension
\* (fee 13..15, scale 12..15, short-term 18..20, long-term 22..25, excess
\* return 9..10, stability 12..15).
C20_SingletonTopBand ==
    (Len(all_funds) = 1 /\ Len(scored_funds) = 1) =>
        LET e == scored_funds[1]
            f == e.fund
            U == ScoreUnit
        IN  /\ f.total_annual_fee # Absent =>
                  /\ fees_percentile(f, all_funds) = One
                  /\ e.breakdown.fees \in (13 * U)..(15 * U)
            /\ scale_percentile(f, all_funds) = One
            /\ e.breakdown.scale \in (12 * U)..(15 * U)
            /\ f.yearly_return # Absent =>
                  /\ returns_percentile(f, all_funds) = One
                  /\ e.breakdown.short_term \in (18 * U)..(20 * U)
            /\ f.return_5year # Absent =>
                  /\ annualized_percentile(f, all_funds) = One
                  /\ e.breakdown.long_term \in (22 * U)..(25 * U)
            /\ f.beats_benchmark_amount # Absent =>
                  /\ excess_percentile(f, all_funds) = One
                  /\ e.breakdown.benchmark \in (9 * U)..(10 * U)
            /\ f.age # Absent =>
                  /\ ages_percentile(f, all_funds, e.clock) = One
                  /\ e.breakdown.stability \in (12 * U)..(15 * U)

\* C20 happens: the worst fund of the pool, which has data in every
\* dimension, is scored alone and gets 100
C20_Witness ==
    /\ all_funds = <<WorstFund>>
    /\ Len(scored_funds) = 1
    /\ scored_funds[1].score = 100 * ScoreUnit


\* the list a scored entry was scored against
CohortOf(e) == IF all_funds = << >> THEN <<e.fund>> ELSE all_funds

\* the positions of the funds of fs that have the field, in order
Kept(fs, field) == SelectSeq([k \in 1..Len(fs) |-> k], LAMBDA k : fs[k][field] # Absent)

\* fs without the funds that lack the field
Without(fs, field) == [j \in 1..Len(Kept(fs, field)) |-> fs[Kept(fs, field)[j]]]

\* the clock readings of the funds that Without keeps
ClockWithout(fs, clk) ==
    [pool |-> [j \in 1..Len(Kept(fs, "age")) |-> clk.pool[Kept(fs, "age")[j]]],
     fund |-> clk.fund]

\* the entry the last call of score_fund has appended (no step changes an
\* entry afterwards: the sort only moves entries)
Latest ==
    IF scored_funds = << >> \/ spc \notin {"score", "alone"} THEN {}
    ELSE {scored_funds[Len(scored_funds)]}

\* C21: in every cohort a fund whose field for a dimension is absent gets
\* that dimension's neutral default (fee 8, short-term 10, long-term 12,
\* excess return 5, stability 8), and a fund that has the field gets the
\* factor score it would get in the cohort without the funds that lack it.
\* This is stated of every entry at the moment it is appended.
C21_AbsentFieldNeutralAndExcluded ==
    \A e \in Latest :
        LET f == e.fund
            fs == CohortOf(e)
            b == e.breakdown
        IN  /\ IF f.total_annual_fee = Absent THEN b.fees = 8 * ScoreUnit
               ELSE b.fees = score_fees_relative(f, Without(fs, "total_annual_fee"))
            /\ IF f.yearly_return = Absent THEN b.short_term = 10 * ScoreUnit
               ELSE b.short_term
                      = score_short_term_performance_relative(f, Without(fs, "yearly_return"))
            /\ IF f.return_5year = Absent THEN b.long_term = 12 * ScoreUnit
               ELSE b.long_term
                      = score_long_term_performance_relative(f, Without(fs, "return_5year"))
            /\ IF f.beats_benchmark_amount = Absent THEN b.benchmark = 5 * ScoreUnit
               ELSE b.benchmark
                      = score_beats_benchmark_relative(f, Without(fs, "beats_benchmark_amount"))
            /\ IF f.age = Absent THEN b.stability = 8 * ScoreUnit
               ELSE b.stability
                      = score_stability_relative(f, Without(fs, "age"),
                                                 ClockWithout(fs, e.clock))

\* a cohort is scored in which one fund lacks all five fields and got the
\* five defaults, and another has them and got none of the five defaults
C21_Witness ==
    /\ AllScored
    /\ \E d \in Scored, e \in Scored :
        /\ d.fund.total_annual_fee = Absent /\ d.fund.yearly_return = Absent
        /\ d.fund.return_5year = Absent /\ d.fund.beats_benchmark_amount = Absent
        /\ d.fund.age = Absent
        /\ d.breakdown.fees = 8 * ScoreUnit /\ d.breakdown.short_term = 10 * ScoreUnit
        /\ d.breakdown.long_term = 12 * ScoreUnit /\ d.breakdown.benchmark = 5 * ScoreUnit
        /\ d.breakdown.stability = 8 * ScoreUnit
        /\ e.fund.total_annual_fee # Absent /\ e.fund.yearly_return # Absent
        /\ e.fund.return_5year # Absent /\ e.fund.beats_benchmark_amount # Absent
        /\ e.fund.age # Absent
        /\ e.breakdown.fees # 8 * ScoreUnit /\ e.breakdown.short_term # 10 * ScoreUnit
        /\ e.breakdown.long_term # 12 * ScoreUnit /\ e.breakdown.benchmark # 5 * ScoreUnit
        /\ e.breakdown.stability # 8 * ScoreUnit


\* the readings of a clock that was read once, on day d, for a list of n funds
Held(n, d) == Readings(n, d, n + 2)

\* C22: within a run the moment the stability dimension takes for "now" is
\* the same for every age, so every stability score, and with it every
\* composite, is the one computed with the clock held at the day the run
\* started.
C22_ClockHeldFixed ==
    \A e \in Scored :
        LET fs == CohortOf(e)
            held == score_fund(e.fund, Some(fs), Held(Len(fs), 0))
        IN  /\ e.breakdown.stability = held.breakdown.stability
            /\ e.score = held.score


\* the sort of analyze_sector is done
Ranked == spc \in {"sorted", "exported"}

\* C23: in the ranked list two funds of equal composite score stand in
\* ascending order of their codes.
C23_TiesByCodeAscending ==
    Ranked =>
        \A k \in 1..(Len(scored_funds) - 1) :
            scored_funds[k].score = scored_funds[k + 1].score
                => scored_funds[k].fund.code <= scored_funds[k + 1].fund.code


\* how often x is in the list es
Times(x, es) == Cardinality({k \in DOMAIN es : es[k] = x})

\* es and fs hold the same entries the same number of times
SameEntries(es, fs) ==
    /\ Len(es) = Len(fs)
    /\ \A k \in DOMAIN es : Times(es[k], es) = Times(es[k], fs)

\* the scores of the ranked list never go up
NonIncreasing ==
    \A k \in 1..(Len(scored_funds) - 1) : scored_funds[k].score >= scored_funds[k + 1].score

\* row k of the table has rank k and is about the k-th fund of the ranked list
RowsInRankOrder ==
    \A k \in DOMAIN table :
        /\ table[k].rank = k
        /\ table[k].code = scored_funds[k].fund.code
        /\ table[k].score = scored_funds[k].score

\* C24 as stated: the ranked list is a permutation of the scored list, its
\* scores never go up, and the ranks are the positions 1..n of all its n funds.
C24_RanksOneToN ==
    /\ [](Ranked => NonIncreasing)
    /\ [](spc = "exported" => RowsInRankOrder /\ Len(table) = Len(scored_funds))
    /\ [][spc = "score" /\ spc' = "sorted" => SameEntries(scored_funds, scored_funds')]_vars

\* C24, amended: the ranked list is a permutation of the scored list, its
\* scores never go up, and the ranking table gives the first TopN funds of it
\* the ranks 1, 2, ... in its order; a fund after the TopN-th gets no rank.
C24_RanksOfFirstTopN ==
    /\ [](Ranked => NonIncreasing)
    /\ [](spc = "exported" =>
            /\ RowsInRankOrder
            /\ Len(table) = IF Len(scored_funds) < TopN THEN Len(scored_funds) ELSE TopN)
    /\ [][spc = "score" /\ spc' = "sorted" => SameEntries(scored_funds, scored_funds')]_vars

\* a list of more than TopN funds is ranked and exported, and the sort has
\* moved the first fund of the input, which has the lowest score, to the end
C24_Witness ==
    /\ spc = "exported"
    /\ Len(scored_funds) > TopN
    /\ Len(table) = TopN
    /\ scored_funds[Len(scored_funds)].fund = all_funds[1]
    /\ scored_funds[1].fund # all_funds[1]
    /\ scored_funds[1].score > scored_funds[Len(scored_funds)].score


\* C25: a fund scored by score_fund without a list gets, for each factor,
\* the value of the rule by fixed thresholds (here fees, scale and short-term
\* performance), not a score relative to a list.
C25_AloneIsAbsolute ==
    spc = "alone" =>
        \A e \in Scored :
            /\ e.breakdown.fees = score_fees(e.fund.total_annual_fee)
            /\ e.breakdown.scale = score_scale(e.fund.scale)
            /\ e.breakdown.short_term = score_short_term_performance(e.fund.yearly_return)


\* a fund, and a list of funds, with the fee components taken away
WithoutParts(f) == [f EXCEPT !.fee_parts = Absent]
ListWithoutParts(fs) == [k \in DOMAIN fs |-> WithoutParts(fs[k])]

\* the funds of the scored entries, in their order
FundsOf(es) == [k \in DOMAIN es |-> es[k].fund]

\* C29: scoring and ranking leave the list of funds as it was: no step
\* changes all_funds, every scored entry holds its fund as the list has it
\* (in the order of the list until the sort, as a permutation of it after),
\* and the fee factor of every entry, at the moment it is appended, is the
\* one computed without the fee components, from total_annual_fee alone.
C29_EntitiesUnchanged ==
    /\ [][all_funds' = all_funds]_vars
    /\ [](spc = "score" =>
            \A k \in DOMAIN scored_funds : scored_funds[k].fund = all_funds[k])
    /\ [](Ranked => SameEntries(FundsOf(scored_funds), all_funds))
    /\ [](\A e \in Latest :
            e.breakdown.fees
                = score_fees_relative(WithoutParts(e.fund), ListWithoutParts(CohortOf(e))))

\* a list is scored and ranked in which a fund's total_annual_fee is not the
\* sum of its components, the sort has changed the order, and the list of
\* funds is still in the order it came in
C29_Witness ==
    /\ spc = "sorted"
    /\ \E e \in Scored :
        /\ e.fund.total_annual_fee # Absent
        /\ e.fund.fee_parts # e.fund.total_annual_fee
        /\ e.breakdown.fees # 8 * ScoreUnit
        /\ e.breakdown.fees # 15 * ScoreUnit
    /\ FundsOf(scored_funds) # all_funds
    /\ SameEntries(FundsOf(scored_funds), all_funds)


ChunkAt(i0) == (i0 + 1)..Min(i0 + max_concurrent, Len(fund_codes))

\* the positions whose get_fund_data call has been started
Started == {p \in DOMAIN status : status[p] # "pending"}

\* while a chunk is gathered it starts at a multiple of max_concurrent, has
\* max_concurrent positions or, as the last one, those that are left (one at
\* least), one task stands for each, and the positions started so far are
\* those of the chunks up to it
ChunkShape ==
    bpc = "gather" =>
        /\ i % max_concurrent = 0
        /\ ChunkAt(i) # {}
        /\ Cardinality(ChunkAt(i)) = max_concurrent
              \/ (Cardinality(ChunkAt(i)) < max_concurrent
                    /\ i + Cardinality(ChunkAt(i)) = Len(fund_codes))
        /\ {i + j : j \in {k \in Slots : tpc[k] # "none"}} = ChunkAt(i)
        /\ Started = 1..(i + Cardinality(ChunkAt(i)))

\* a step starts get_fund_data for the positions of one chunk, none of which
\* was started before, or for none; and no position goes back to pending or
\* to active
StartsOnce ==
    /\ \A p \in DOMAIN status :
          /\ status[p] # "pending" => status'[p] # "pending"
          /\ status'[p] = "active" => status[p] \in {"pending", "active"}
    /\ Started' # Started => Started' \ Started = ChunkAt(i')

\* C27: batch_get_fund_data cuts the sequence into consecutive chunks in
\* input order, every position in exactly one: each chunk but the last has
\* max_concurrent positions, the last between 1 and max_concurrent;
\* get_fund_data is started once per position, and for every position when
\* the call returns.
C27_ChunksPartitionInput ==
    /\ [](ChunkShape)
    /\ [](bpc = "done" => Started = DOMAIN status)
    /\ [][StartsOnce]_vars

\* the call has returned for three identifiers taken two at a time: a chunk
\* of two and a last chunk of one
C27_Witness ==
    /\ bpc = "done"
    /\ max_concurrent = 2
    /\ Len(fund_codes) = 3
    /\ i = 2
    /\ Started = {1, 2, 3}


\* the input positions whose get_fund_data call returned an entity, in input
\* order
OkInOrder == SelectSeq([p \in 1..Len(fund_codes) |-> p], LAMBDA p : status[p] = "ok")

\* C28: the collection batch_get_fund_data returns is the input sequence
\* restricted to the identifiers whose get_fund_data call returned an
\* entity: one entity per such position, in the order of the input, each
\* with the identifier it was asked for, in whatever order the calls ended.
C28_ReturnedInInputOrder ==
    bpc = "done" =>
        /\ Len(returned) = Len(OkInOrder)
        /\ \A k \in DOMAIN returned :
              /\ returned[k].kind = "FundData"
              /\ returned[k].code = fund_codes[OkInOrder[k]]

\* the call has returned for the identifiers A, B, A taken two at a time, of
\* which the second failed: the entities of the first and the third are
\* returned
C28_Witness ==
    /\ bpc = "done"
    /\ max_concurrent = 2
    /\ fund_codes = <<"A", "B", "A">>
    /\ status = <<"ok", "failed", "ok">>
    /\ Len(returned) = 2


\* a step that takes a permit takes one, for one request that waited for it
\* and held none
TakesOnePermit ==
    semaphore' < semaphore =>
        /\ semaphore' = semaphore - 1
        /\ \E je \in (Slots \X Endpoints) \ InFlight :
              /\ req[je[1]][je[2]].pc = "acquire"
              /\ InFlight' = InFlight \cup {je}

\* C26: when every request is answered, batch_get_fund_data returns in the
\* end, and then every permit of the semaphore is free again and no request
\* is left inside it; a task takes one permit at a time, so the requests of
\* a chunk cannot block one another for ever.
C26_ReturnsWithPermitsRestored ==
    /\ <>(bpc = "done")
    /\ [](bpc = "done" => semaphore = max_concurrent /\ InFlight = {})
    /\ [][TakesOnePermit]_vars

\* the call has returned for three identifiers taken two at a time, some with
\* an entity and some without, and both permits are free
C26_Witness ==
    /\ bpc = "done"
    /\ max_concurrent = 2
    /\ semaphore = 2
    /\ Len(fund_codes) = 3
    /\ Len(returned) \in 1..2

====
